---- MODULE Spec2Model ----
(***************************************************************************)
(* Model of src/main.py: a sequential batch job that, for every URL of a   *)
(* fixed list, downloads the video (download_youtube_video), looks up its  *)
(* title, sends the file to Telegram (send_video_to_telegram) and removes  *)
(* the local file.  The outside world (yt-dlp, the Telegram API, the file  *)
(* system) is modelled by nondeterministic outcomes of each external call. *)
(* Every external call and every log record is appended to `trace`, so     *)
(* that counts and orderings can be stated as state predicates.            *)
(***************************************************************************)
EXTENDS Integers, Sequences, FiniteSets, TLC

VARIABLES
    TELEGRAM_BOT_TOKEN,    \* main.py:18, the module-level constant (an input of the run)
    TELEGRAM_CHANNEL_ID,   \* main.py:19
    pc,                    \* position of main() / send_video_to_telegram()
    idx,                   \* 1-based position of the for loop in youtube_urls
    downloaded_file_path,  \* main.py:143
    video_title,           \* main.py:147/152
    caption_text,          \* main.py:156
    file_size,             \* main.py:88 (bytes), -1 while unknown
    disk,                  \* set of paths present in DOWNLOAD_DIR
    trace                  \* sequence of calls / log records / returns

vars == <<TELEGRAM_BOT_TOKEN, TELEGRAM_CHANNEL_ID, pc, idx, downloaded_file_path,
          video_title, caption_text, file_size, disk, trace>>

----------------------------------------------------------------------------
(* Bounds of the model *)

\* file sizes are drawn from SizeLimitBytes - SizeSpread .. SizeLimitBytes + SizeSpread
SizeSpread == 1

----------------------------------------------------------------------------
(* Program constants *)

PlaceholderToken == "YOUR_TELEGRAM_BOT_TOKEN"
PlaceholderChannel == "-1001234567890"
DOWNLOAD_DIR == "downloads"
DefaultTitle == "YouTube Video"
SizeLimitMB == 50
BytesPerMB == 1024 * 1024

\* Python's None (downloaded_file_path on failure, a title that is None)
NoneVal == "<None>"

\* main.py:133-139
youtube_urls ==
    <<"https://www.youtube.com/watch?v=dQw4w9WgXcQ",
      "https://www.youtube.com/watch?v=kYqg460iU-0">>

\* the title yt-dlp reports for the i-th URL (what %(title)s expands to)
TitleOf(i) == IF i = 1 THEN "Vid A" ELSE "Vid B"

\* main.py:48,66: os.path.join(output_path, '%(title)s.%(ext)s') as prepare_filename fills it
prepare_filename(output_path, title) == output_path \o "/" \o title \o ".mp4"

Filename(i) == prepare_filename(DOWNLOAD_DIR, TitleOf(i))

----------------------------------------------------------------------------
(* Trace records *)

Call(j, what, path, arg) == [job |-> j, kind |-> "call", what |-> what, path |-> path, arg |-> arg, n |-> 0]
\* a call returning `arg` (and the number n, where it returns one)
Ret(j, what, arg, n) == [job |-> j, kind |-> "return", what |-> what, path |-> "", arg |-> arg, n |-> n]
\* a call raising an exception of class exc
Raise(j, what, exc) == [job |-> j, kind |-> "raise", what |-> what, path |-> "", arg |-> exc, n |-> 0]
Log(j, level, what, n) == [job |-> j, kind |-> level, what |-> what, path |-> "", arg |-> "", n |-> n]

\* log messages (the constant part of each f-string)
MsgConfig1 == "Please update TELEGRAM_BOT_TOKEN and TELEGRAM_CHANNEL_ID"
MsgConfig2 == "Alternatively, set them as environment variables"
MsgBotInit == "Telegram Bot initialized."
MsgStart == "--- Starting processing for URL"
MsgAttempt == "Attempting to download video from"
MsgDownloaded == "Successfully downloaded"
MsgDownloadError == "yt-dlp Download Error"
MsgDownloadUnexpected == "An unexpected error occurred during video download"
MsgTitleWarning == "Could not extract video title"
MsgSizeWarning == "Telegram's direct bot video upload limit is around 50MB"
MsgSent == "successfully sent to Telegram"
MsgFileNotFound == "Error: Video file not found at path"
MsgTelegramError == "Telegram API error when sending video"
MsgSendUnexpected == "An unexpected error occurred when sending"
MsgRemoved == "Successfully removed local file"
MsgRemoveWarning == "Error removing file"
MsgSkip == "Skipping Telegram upload"
MsgFinished == "--- Finished processing for URL"

----------------------------------------------------------------------------
(* Exceptions: the classes the except clauses distinguish *)

ExcFileNotFound == "FileNotFoundError"    \* subclass of OSError
ExcPermission == "PermissionError"        \* an OSError that is not FileNotFoundError
ExcTelegram == "TelegramError"
ExcDownload == "DownloadError"
ExcOther == "Exception"                   \* any other subclass of Exception

IsOSError(exc) == exc \in {ExcFileNotFound, ExcPermission}
\* every class above derives from Exception
IsException(exc) == exc \in {ExcFileNotFound, ExcPermission, ExcTelegram, ExcDownload, ExcOther}

----------------------------------------------------------------------------
(* Pure parts of the code *)

\* the check with `and` where the code has `or`
ConfigIsPlaceholderBoth(token, channel) ==
    token = PlaceholderToken /\ channel = PlaceholderChannel

\* main.py:123
ConfigIsPlaceholder(token, channel) ==
    token = PlaceholderToken \/ channel = PlaceholderChannel

\* main.py:69-74: both except clauses log and return None
DownloadExceptMsg(exc) ==
    IF exc = ExcDownload THEN MsgDownloadError ELSE MsgDownloadUnexpected

\* a test that takes None for a path
TruthyAlways(v) == v = v

\* main.py:145: truthiness of `str | None`
Truthy(v) == v # NoneVal /\ v # ""

\* the lookup without the default assigned before the try
TitleAfterLookupNoDefault(info) ==
    IF info.raises THEN NoneVal
    ELSE IF info.has_title THEN info.title ELSE DefaultTitle

\* main.py:147-154: video_title after the lookup; info.get('title', video_title)
\* with video_title = "YouTube Video", which also stays when the lookup raises
TitleAfterLookup(info) ==
    IF info.raises THEN DefaultTitle
    ELSE IF info.has_title THEN info.title ELSE DefaultTitle

\* how an f-string renders a value
Str(v) == IF v = NoneVal THEN "None" ELSE v

\* the caption with its two lines in the other order
CaptionTextSwapped(title, url) == "Source: " \o Str(url) \o "\nTitle: " \o Str(title)

\* main.py:156
CaptionText(title, url) == "Title: " \o Str(title) \o "\nSource: " \o Str(url)

\* the comparison with >= where the code has >
OverLimitInclusive(size) == size >= SizeLimitMB * BytesPerMB

\* main.py:89-91: file_size / (1024 * 1024) > 50.  Dividing an integer below
\* 2^53 by 2^20 is exact in binary floating point, so the comparison is the
\* integer comparison file_size > 50 * 2^20.
OverLimit(size) == size > SizeLimitMB * BytesPerMB

\* the handlers without the final `except Exception`
SendCatchesNoCatchAll(exc) ==
    exc = ExcFileNotFound \/ exc = ExcTelegram

\* main.py:112-117: which clauses of send_video_to_telegram catch exc
SendCatches(exc) ==
    exc = ExcFileNotFound \/ exc = ExcTelegram \/ IsException(exc)

\* the clauses with `except Exception` first, which then shadows the others
SendExceptMsgCatchAllFirst(exc) ==
    IF IsException(exc) THEN MsgSendUnexpected
    ELSE IF exc = ExcFileNotFound THEN MsgFileNotFound
    ELSE MsgTelegramError

\* main.py:112-117: the message of the first matching clause
SendExceptMsg(exc) ==
    IF exc = ExcFileNotFound THEN MsgFileNotFound
    ELSE IF exc = ExcTelegram THEN MsgTelegramError
    ELSE MsgSendUnexpected

\* `except FileNotFoundError` where the code has `except OSError`
RemoveCatchesNotFoundOnly(exc) == exc = ExcFileNotFound

\* main.py:163: except OSError
RemoveCatches(exc) == IsOSError(exc)

\* a removal that reports success and leaves the file
RemoveFileKeeps(files, path) == files

\* main.py:161: what os.remove leaves of the directory when it succeeds
RemoveFile(files, path) == files \ {path}

----------------------------------------------------------------------------
(* Outcomes of the external calls *)

FetchOutcomes == {"ok", ExcDownload, ExcOther}

\* ydl.extract_info(url, download=False): raises, or returns an info dict that
\* has a title (possibly None) or has none
MetaOutcomes(i) ==
    {[raises |-> TRUE, has_title |-> FALSE, title |-> NoneVal],
     [raises |-> FALSE, has_title |-> FALSE, title |-> NoneVal]}
    \cup {[raises |-> FALSE, has_title |-> TRUE, title |-> t] : t \in {TitleOf(i), NoneVal}}

SizeLimitBytes == SizeLimitMB * BytesPerMB
Sizes == {SizeLimitBytes + d : d \in (0 - SizeSpread)..SizeSpread}

UploadOutcomes == {"ok", ExcTelegram, ExcOther}

----------------------------------------------------------------------------
Init ==
    /\ TELEGRAM_BOT_TOKEN \in {PlaceholderToken, "110201543:AAHdqTcvCH1vGWJxfSeofSAs0K5PALDsaw"}
    /\ TELEGRAM_CHANNEL_ID \in {PlaceholderChannel, "-1009876543210"}
    /\ pc = "main"
    /\ idx = 1
    /\ downloaded_file_path = NoneVal
    /\ video_title = NoneVal
    /\ caption_text = NoneVal
    /\ file_size = -1
    /\ disk = {}
    /\ trace = <<>>

\* main.py:123-129.  Bot(token=...) is taken to accept any token that passed
\* the check.
ConfigCheck ==
    /\ pc = "main"
    /\ IF ConfigIsPlaceholder(TELEGRAM_BOT_TOKEN, TELEGRAM_CHANNEL_ID)
       THEN /\ trace' = trace \o <<Log(0, "error", MsgConfig1, 0), Log(0, "error", MsgConfig2, 0)>>
            /\ pc' = "done"
       ELSE /\ trace' = trace \o <<Call(0, "Bot", "", TELEGRAM_BOT_TOKEN), Log(0, "info", MsgBotInit, 0)>>
            /\ pc' = "loop"
    /\ UNCHANGED <<TELEGRAM_BOT_TOKEN, TELEGRAM_CHANNEL_ID, idx, downloaded_file_path,
                   video_title, caption_text, file_size, disk>>

\* main.py:141-142: the for statement takes the next URL, or the loop ends
LoopHead ==
    /\ pc = "loop"
    /\ IF idx <= Len(youtube_urls)
       THEN /\ trace' = trace \o <<Log(idx, "info", MsgStart, 0)>>
            /\ pc' = "fetch"
       ELSE /\ trace' = trace
            /\ pc' = "done"
    /\ UNCHANGED <<TELEGRAM_BOT_TOKEN, TELEGRAM_CHANNEL_ID, idx, downloaded_file_path,
                   video_title, caption_text, file_size, disk>>

\* main.py:143 with download_youtube_video (60-74), then the branch at 145/165-167.
\* A successful download leaves its file at the returned path; a failed one is
\* taken to leave nothing in the directory.
Fetch ==
    /\ pc = "fetch"
    /\ \E outcome \in FetchOutcomes :
         LET url == youtube_urls[idx]
             called == trace \o <<Log(idx, "info", MsgAttempt, 0),
                                  Call(idx, "extract_info_download", DOWNLOAD_DIR, url)>>
             result == IF outcome = "ok" THEN Filename(idx) ELSE NoneVal
             logged == IF outcome = "ok"
                       THEN called \o <<Ret(idx, "extract_info_download", TitleOf(idx), 0),
                                        Log(idx, "info", MsgDownloaded, 0),
                                        Ret(idx, "download_youtube_video", result, 0)>>
                       ELSE called \o <<Raise(idx, "extract_info_download", outcome),
                                        Log(idx, "error", DownloadExceptMsg(outcome), 0),
                                        Ret(idx, "download_youtube_video", result, 0)>>
         IN /\ disk' = IF outcome = "ok" THEN disk \cup {Filename(idx)} ELSE disk
            /\ downloaded_file_path' = result
            /\ IF Truthy(result)
               THEN /\ trace' = logged
                    /\ pc' = "caption"
                    /\ idx' = idx
               ELSE /\ trace' = logged \o <<Log(idx, "error", MsgSkip, 0),
                                            Log(idx, "info", MsgFinished, 0)>>
                    /\ pc' = "loop"
                    /\ idx' = idx + 1
    /\ UNCHANGED <<TELEGRAM_BOT_TOKEN, TELEGRAM_CHANNEL_ID, video_title, caption_text, file_size>>

\* main.py:147-157: the metadata lookup, the caption, and the call of
\* send_video_to_telegram (whose body is the Send* actions)
Caption ==
    /\ pc = "caption"
    /\ \E info \in MetaOutcomes(idx) :
         LET url == youtube_urls[idx]
             title == TitleAfterLookup(info)
             looked == trace \o <<Call(idx, "extract_info_metadata", "", url)>>
             warned == IF info.raises
                       THEN looked \o <<Raise(idx, "extract_info_metadata", ExcOther),
                                        Log(idx, "warning", MsgTitleWarning, 0)>>
                       ELSE looked \o <<Ret(idx, "extract_info_metadata", info.title,
                                            IF info.has_title THEN 1 ELSE 0)>>
         IN /\ video_title' = title
            /\ caption_text' = CaptionText(title, url)
            /\ trace' = warned \o <<Call(idx, "send_video_to_telegram", downloaded_file_path,
                                         CaptionText(title, url))>>
    /\ pc' = "send_getsize"
    /\ UNCHANGED <<TELEGRAM_BOT_TOKEN, TELEGRAM_CHANNEL_ID, idx, downloaded_file_path,
                   file_size, disk>>

\* main.py:112-117 and the return to main.py:157: the call `what`, made inside
\* the try of send_video_to_telegram after the events `sofar`, raises exc.  An
\* exception no clause catches leaves main() and ends the run.
SendRaise(sofar, what, exc) ==
    IF SendCatches(exc)
    THEN /\ trace' = sofar \o <<Raise(idx, what, exc),
                                Log(idx, "error", SendExceptMsg(exc), 0),
                                Ret(idx, "send_video_to_telegram", NoneVal, 0)>>
         /\ pc' = "cleanup"
    ELSE /\ trace' = sofar \o <<Raise(idx, what, exc), Raise(idx, "main", exc)>>
         /\ pc' = "crashed"

\* main.py:88-99
SendGetsize ==
    /\ pc = "send_getsize"
    /\ LET called == trace \o <<Call(idx, "getsize", downloaded_file_path, "")>>
       IN IF downloaded_file_path \notin disk
          THEN /\ SendRaise(called, "getsize", ExcFileNotFound)
               /\ file_size' = -1
          ELSE \/ /\ SendRaise(called, "getsize", ExcPermission)
                  /\ file_size' = -1
               \/ \E size \in Sizes :
                    LET got == called \o <<Ret(idx, "getsize", "", size)>>
                    IN /\ file_size' = size
                       /\ trace' = IF OverLimit(size)
                                   THEN got \o <<Log(idx, "warning", MsgSizeWarning, size)>>
                                   ELSE got
                    /\ pc' = "send_open"
    /\ UNCHANGED <<TELEGRAM_BOT_TOKEN, TELEGRAM_CHANNEL_ID, idx, downloaded_file_path,
                   video_title, caption_text, disk>>

\* main.py:107
SendOpen ==
    /\ pc = "send_open"
    /\ LET called == trace \o <<Call(idx, "open", downloaded_file_path, "rb")>>
       IN IF downloaded_file_path \notin disk
          THEN /\ SendRaise(called, "open", ExcFileNotFound)
               /\ file_size' = -1
          ELSE \/ /\ SendRaise(called, "open", ExcPermission)
                  /\ file_size' = -1
               \/ /\ trace' = called \o <<Ret(idx, "open", "", 0)>>
                  /\ pc' = "send_upload"
                  /\ file_size' = file_size
    /\ UNCHANGED <<TELEGRAM_BOT_TOKEN, TELEGRAM_CHANNEL_ID, idx, downloaded_file_path,
                   video_title, caption_text, disk>>

\* main.py:109-110
SendUpload ==
    /\ pc = "send_upload"
    /\ \E outcome \in UploadOutcomes :
         LET called == trace \o <<Call(idx, "bot.send_video", downloaded_file_path, caption_text)>>
         IN IF outcome = "ok"
            THEN /\ trace' = called \o <<Ret(idx, "bot.send_video", "", 0),
                                         Log(idx, "info", MsgSent, 0),
                                         Ret(idx, "send_video_to_telegram", NoneVal, 0)>>
                 /\ pc' = "cleanup"
            ELSE SendRaise(called, "bot.send_video", outcome)
    /\ file_size' = -1
    /\ UNCHANGED <<TELEGRAM_BOT_TOKEN, TELEGRAM_CHANNEL_ID, idx, downloaded_file_path,
                   video_title, caption_text, disk>>

\* main.py:160-167
Cleanup ==
    /\ pc = "cleanup"
    /\ LET called == trace \o <<Call(idx, "os.remove", downloaded_file_path, "")>>
           Raises(exc) ==
               IF RemoveCatches(exc)
               THEN /\ trace' = called \o <<Raise(idx, "os.remove", exc),
                                            Log(idx, "warning", MsgRemoveWarning, 0),
                                            Log(idx, "info", MsgFinished, 0)>>
                    /\ pc' = "loop"
                    /\ idx' = idx + 1
                    /\ disk' = disk
               ELSE /\ trace' = called \o <<Raise(idx, "os.remove", exc), Raise(idx, "main", exc)>>
                    /\ pc' = "crashed"
                    /\ idx' = idx
                    /\ disk' = disk
       IN IF downloaded_file_path \notin disk
          THEN Raises(ExcFileNotFound)
          ELSE \/ Raises(ExcPermission)
               \/ /\ disk' = RemoveFile(disk, downloaded_file_path)
                  /\ trace' = called \o <<Ret(idx, "os.remove", "", 0),
                                          Log(idx, "info", MsgRemoved, 0),
                                          Log(idx, "info", MsgFinished, 0)>>
                  /\ pc' = "loop"
                  /\ idx' = idx + 1
    /\ UNCHANGED <<TELEGRAM_BOT_TOKEN, TELEGRAM_CHANNEL_ID, downloaded_file_path,
                   video_title, caption_text, file_size>>

\* The environment: something other than this program removes the file the
\* job is holding (what makes "file missing at send time" possible)
EnvRemove ==
    /\ pc \in {"caption", "send_getsize", "send_open", "send_upload", "cleanup"}
    /\ downloaded_file_path \in disk
    /\ disk' = disk \ {downloaded_file_path}
    /\ UNCHANGED <<TELEGRAM_BOT_TOKEN, TELEGRAM_CHANNEL_ID, pc, idx, downloaded_file_path,
                   video_title, caption_text, file_size, trace>>

\* the steps of the program itself
MainStep ==
    \/ ConfigCheck
    \/ LoopHead
    \/ Fetch
    \/ Caption
    \/ SendGetsize
    \/ SendOpen
    \/ SendUpload
    \/ Cleanup

Next ==
    \/ MainStep
    \/ EnvRemove

Spec == Init /\ [][Next]_vars

\* main() is one coroutine run to completion by asyncio.run: whenever it has a
\* next step it takes it.  Nothing is assumed of the environment.
FairSpec == Spec /\ WF_vars(MainStep)

----------------------------------------------------------------------------
(* Reading the trace *)

Jobs == 1..Len(youtube_urls)

Events(j, kind, what) ==
    {k \in DOMAIN trace : trace[k].job = j /\ trace[k].kind = kind /\ trace[k].what = what}

Calls(j, what) == Events(j, "call", what)
Returned(j, what) == Events(j, "return", what)
Raised(j, what) == Events(j, "raise", what)

Logged(j, msg) ==
    {k \in DOMAIN trace : /\ trace[k].job = j
                          /\ trace[k].kind \in {"info", "warning", "error"}
                          /\ trace[k].what = msg}

RaisedWith(j, what, exc) == {k \in Raised(j, what) : trace[k].arg = exc}

\* download_youtube_video returned None / a path for job j
FetchFailed(j) == \E k \in Returned(j, "download_youtube_video") : trace[k].arg = NoneVal
FetchSucceeded(j) == \E k \in Returned(j, "download_youtube_video") : trace[k].arg # NoneVal

\* job j has reached Done (main.py:167)
JobDone(j) == Logged(j, MsgFinished) # {}

\* the URLs fetched so far, in the order of the calls
FetchedUrls ==
    LET IsFetch(e) == e.kind = "call" /\ e.what = "extract_info_download"
        S == SelectSeq(trace, IsFetch)
    IN [k \in 1..Len(S) |-> S[k].arg]

ConfigAccepted ==
    /\ TELEGRAM_BOT_TOKEN # "YOUR_TELEGRAM_BOT_TOKEN"
    /\ TELEGRAM_CHANNEL_ID # "-1001234567890"

----------------------------------------------------------------------------
(* C1: a URL whose download returned None gets no send_video_to_telegram    *)
(* call, no upload, no metadata lookup and no file deletion; its job is     *)
(* finished at once and the loop goes on to the next URL of the list.       *)
C1_FetchFailureSkipsJob ==
    \A j \in Jobs :
        FetchFailed(j) =>
            /\ Calls(j, "send_video_to_telegram") = {}
            /\ Calls(j, "bot.send_video") = {}
            /\ Calls(j, "extract_info_metadata") = {}
            /\ Calls(j, "os.remove") = {}
            /\ Logged(j, MsgSkip) # {}
            /\ JobDone(j)
            /\ pc \in {"loop", "fetch", "caption", "send_getsize", "send_open",
                       "send_upload", "cleanup", "done"}
            /\ idx > j
            /\ (pc = "done" /\ j < Len(youtube_urls)) => Calls(j + 1, "extract_info_download") # {}

C1_Witness ==
    /\ pc = "done"
    /\ FetchFailed(1)
    /\ FetchSucceeded(2)
    /\ Calls(2, "bot.send_video") # {}

\* main has not left with an exception, can take a next step unless it is
\* done, and the fetches made so far are the first URLs of the list, in list
\* order, one each (all of them once main is done)
RunOnCourse ==
    /\ pc # "crashed"
    /\ Len(FetchedUrls) <= Len(youtube_urls)
    /\ \A k \in DOMAIN FetchedUrls : FetchedUrls[k] = youtube_urls[k]
    /\ pc = "done" => FetchedUrls = youtube_urls
    /\ pc # "done" => ENABLED MainStep

(* C2: with the configuration accepted, no outcome of a fetch, a metadata   *)
(* lookup, an upload or a deletion ends the run early: in every state main  *)
(* has not left with an exception and the fetches made so far are the first *)
(* URLs of the list in list order, one each; and the run eventually         *)
(* completes with every URL of the list fetched exactly once.               *)
C2_NoJobAbortsRun ==
    ConfigAccepted =>
        /\ []RunOnCourse
        /\ <>(pc = "done" /\ FetchedUrls = youtube_urls)

C2_Witness ==
    /\ pc = "done"
    /\ ConfigAccepted
    /\ Raised(1, "extract_info_metadata") # {}
    /\ RaisedWith(1, "bot.send_video", ExcOther) # {}
    /\ RaisedWith(1, "os.remove", ExcPermission) # {}
    /\ RaisedWith(2, "extract_info_download", ExcDownload) # {}

(* C3: with the token or the channel id (either alone) at its placeholder,  *)
(* main logs the configuration error and returns with no download, no       *)
(* metadata lookup and no upload made; the configuration error is logged    *)
(* only before the first job, never within a job, and never when both       *)
(* values are set.                                                          *)
C3_PlaceholderConfigStopsRun ==
    /\ (pc # "main" /\ ~ConfigAccepted) =>
            /\ pc = "done"
            /\ trace = <<Log(0, "error", MsgConfig1, 0), Log(0, "error", MsgConfig2, 0)>>
            /\ disk = {}
            /\ idx = 1
    /\ \A k \in DOMAIN trace :
            trace[k].what \in {MsgConfig1, MsgConfig2} =>
                /\ trace[k].job = 0
                /\ k <= 2
                /\ ~ConfigAccepted

C3_Witness ==
    /\ pc = "done"
    /\ TELEGRAM_BOT_TOKEN # "YOUR_TELEGRAM_BOT_TOKEN"
    /\ TELEGRAM_CHANNEL_ID = "-1001234567890"
    /\ Len(trace) = 2

(* C4 as the specification states it: for every job whose fetch succeeded,  *)
(* once its Cleanup step has finished no file of that job is on disk.       *)
C4_NoFileAfterCleanup ==
    \A j \in Jobs :
        (FetchSucceeded(j) /\ JobDone(j)) => Filename(j) \notin disk

(* C4, amended: for every job whose fetch succeeded, once its Cleanup step  *)
(* has finished, the job's file is gone from disk whenever os.remove        *)
(* returned without an error; it is still on disk only if os.remove raised  *)
(* an error, which was logged as a warning.  The upload outcome plays no    *)
(* part.                                                                    *)
C4_NoFileAfterCleanupUnlessRemoveFailed ==
    \A j \in Jobs :
        (FetchSucceeded(j) /\ JobDone(j)) =>
            /\ Returned(j, "os.remove") # {} => Filename(j) \notin disk
            /\ Filename(j) \in disk =>
                    /\ Raised(j, "os.remove") # {}
                    /\ \E k \in Logged(j, MsgRemoveWarning) : trace[k].kind = "warning"

C4_Witness ==
    /\ pc = "done"
    /\ RaisedWith(1, "bot.send_video", ExcTelegram) # {}
    /\ Returned(1, "os.remove") # {}
    /\ Filename(1) \notin disk
    /\ Returned(2, "bot.send_video") # {}
    /\ Returned(2, "os.remove") # {}
    /\ Filename(2) \notin disk

\* the files of jobs whose deletion raised an error
Leftover == {Filename(j) : j \in {i \in Jobs : Raised(i, "os.remove") # {}}}

(* C5 as the specification states it: in every state at most one           *)
(* downloaded file is in the download directory, and when the fetch of a    *)
(* job begins the files of all earlier jobs have been removed.              *)
C5_AtMostOneFileOnDisk ==
    /\ Cardinality(disk) <= 1
    /\ pc = "fetch" => \A j \in Jobs : j < idx => Filename(j) \notin disk

(* C5, amended: in every state at most one downloaded file is pending       *)
(* upload or deletion, and it is the file of the job being processed; the   *)
(* file of job i is removed before the fetch of job i+1 begins unless its   *)
(* deletion raised an error, in which case it stays in the download         *)
(* directory while the later jobs run.                                      *)
C5_AtMostOnePendingFile ==
    /\ Cardinality(disk \ Leftover) <= 1
    /\ \A f \in disk \ Leftover : idx \in Jobs /\ f = Filename(idx)
    /\ pc \in {"main", "loop", "fetch", "done"} => disk \subseteq Leftover
    /\ \A j \in Jobs : (j < idx /\ Filename(j) \in disk) => Raised(j, "os.remove") # {}

C5_Witness ==
    /\ pc = "send_upload"
    /\ idx = 2
    /\ disk = {Filename(2)}
    /\ FetchSucceeded(1)
    /\ Returned(1, "os.remove") # {}

(* C6 as the specification states it: once send_video_to_telegram has       *)
(* returned for a file whose size it read, bot.send_video was called        *)
(* exactly once; above 50 MB the size warning was logged once, before that  *)
(* call; at 50 MB or below no size warning was logged.                      *)
C6_WarningThenUploadAlways ==
    \A j \in Jobs : \A g \in Returned(j, "getsize") :
        Returned(j, "send_video_to_telegram") # {} =>
            LET W == Logged(j, MsgSizeWarning)
                U == Calls(j, "bot.send_video")
            IN /\ Cardinality(U) = 1
               /\ trace[g].n > 50 * 1024 * 1024 =>
                       /\ Cardinality(W) = 1
                       /\ \A w \in W : \A u \in U : w < u
               /\ trace[g].n <= 50 * 1024 * 1024 => W = {}

(* C6, amended: once send_video_to_telegram has read the file size, above   *)
(* 50 MB the size warning is logged once, before the file is opened for     *)
(* the upload, and at 50 MB or below no size warning is logged; in both     *)
(* cases the file is then opened once and, unless opening it raises an      *)
(* error (then no upload call is made), bot.send_video is called exactly    *)
(* once.                                                                    *)
C6_WarningThenUploadIfOpened ==
    \A j \in Jobs : \A g \in Returned(j, "getsize") :
        LET W == Logged(j, MsgSizeWarning)
            O == Calls(j, "open")
            U == Calls(j, "bot.send_video")
        IN /\ trace[g].n > 50 * 1024 * 1024 =>
                   /\ Cardinality(W) = 1
                   /\ \A w \in W : trace[w].kind = "warning" /\ g < w
                   /\ \A w \in W : \A o \in O \cup U : w < o
           /\ trace[g].n <= 50 * 1024 * 1024 => W = {}
           /\ Cardinality(O) <= 1 /\ Cardinality(U) <= 1
           /\ \A u \in U : \E o \in Returned(j, "open") : o < u
           /\ Returned(j, "send_video_to_telegram") # {} =>
                   /\ Cardinality(O) = 1
                   /\ Returned(j, "open") # {} => Cardinality(U) = 1
                   /\ Raised(j, "open") # {} => U = {}

C6_Witness ==
    /\ pc = "done"
    /\ \E g \in Returned(1, "getsize") : trace[g].n = 50 * 1024 * 1024 + 1
    /\ Logged(1, MsgSizeWarning) # {}
    /\ Returned(1, "bot.send_video") # {}
    /\ \E g \in Returned(2, "getsize") : trace[g].n = 50 * 1024 * 1024
    /\ Logged(2, MsgSizeWarning) = {}
    /\ Calls(2, "bot.send_video") # {}

(* C7: when the metadata lookup of a job whose fetch succeeded raises an    *)
(* error, a warning is logged and send_video_to_telegram is called exactly  *)
(* once for the job, after the failed lookup, with the downloaded path and  *)
(* the caption "Title: YouTube Video\nSource: <url>", which is also the     *)
(* caption any upload of the job carries.                                   *)
C7_MetadataFailureFallsBack ==
    \A j \in Jobs : \A m \in Raised(j, "extract_info_metadata") :
        LET S == Calls(j, "send_video_to_telegram")
            expected == "Title: YouTube Video\nSource: " \o youtube_urls[j]
        IN /\ FetchSucceeded(j)
           /\ \E k \in Logged(j, MsgTitleWarning) : trace[k].kind = "warning"
           /\ Cardinality(S) = 1
           /\ \A k \in S : /\ m < k
                           /\ trace[k].arg = expected
                           /\ trace[k].path = Filename(j)
           /\ \A u \in Calls(j, "bot.send_video") : trace[u].arg = expected

C7_Witness ==
    /\ Raised(1, "extract_info_metadata") # {}
    /\ Returned(1, "bot.send_video") # {}
    /\ JobDone(1)

(* C8: for a job whose fetch returned path P and whose metadata lookup      *)
(* returned title T for URL U, send_video_to_telegram is called exactly     *)
(* once, with P and the caption "Title: T\nSource: U"; os.remove is called  *)
(* at most once, on P, only after that call has returned, and exactly once  *)
(* by the time the job is done.                                             *)
C8_OneSendThenDelete ==
    \A j \in Jobs : \A m \in Returned(j, "extract_info_metadata") :
        trace[m].n = 1 =>
            LET T == trace[m].arg
                expected == "Title: " \o (IF T = NoneVal THEN "None" ELSE T)
                                \o "\nSource: " \o youtube_urls[j]
                S == Calls(j, "send_video_to_telegram")
                D == Calls(j, "os.remove")
            IN /\ Cardinality(S) = 1
               /\ \A k \in S : /\ trace[k].arg = expected
                               /\ \E r \in Returned(j, "download_youtube_video") :
                                      trace[k].path = trace[r].arg
               /\ Cardinality(D) <= 1
               /\ JobDone(j) => Cardinality(D) = 1
               /\ \A d \in D : /\ \E r \in Returned(j, "download_youtube_video") :
                                      trace[d].path = trace[r].arg
                               /\ \E r \in Returned(j, "send_video_to_telegram") :
                                      /\ r < d
                                      /\ \A k \in S : k < r

C8_Witness ==
    /\ \E m \in Returned(1, "extract_info_metadata") : trace[m].n = 1 /\ trace[m].arg = "Vid A"
    /\ \E k \in Calls(1, "send_video_to_telegram") :
           /\ trace[k].path = "downloads/Vid A.mp4"
           /\ trace[k].arg = "Title: Vid A\nSource: https://www.youtube.com/watch?v=dQw4w9WgXcQ"
    /\ Returned(1, "bot.send_video") # {}
    /\ Returned(1, "os.remove") # {}
    /\ "downloads/Vid A.mp4" \notin disk

(* C9: for every job whose fetch succeeded, os.remove is called at most     *)
(* once, and exactly once as soon as send_video_to_telegram has returned    *)
(* and Cleanup has run, whatever the upload outcome was; a deletion that    *)
(* raises is logged as a warning, the job reaches Done and main goes on.    *)
C9_OneDeletionAttempt ==
    /\ pc # "crashed"
    /\ \A j \in Jobs :
        FetchSucceeded(j) =>
            /\ Cardinality(Calls(j, "os.remove")) <= 1
            /\ JobDone(j) => Cardinality(Calls(j, "os.remove")) = 1
            /\ (Returned(j, "send_video_to_telegram") # {} /\ ~(pc = "cleanup" /\ idx = j)) =>
                    /\ Cardinality(Calls(j, "os.remove")) = 1
                    /\ JobDone(j)
            /\ Raised(j, "os.remove") # {} =>
                    /\ \E k \in Logged(j, MsgRemoveWarning) : trace[k].kind = "warning"
                    /\ JobDone(j)
                    /\ idx > j

C9_Witness ==
    /\ pc = "done"
    /\ RaisedWith(1, "bot.send_video", ExcTelegram) # {}
    /\ RaisedWith(1, "os.remove", ExcPermission) # {}
    /\ JobDone(1)
    /\ RaisedWith(2, "getsize", ExcFileNotFound) # {}
    /\ RaisedWith(2, "os.remove", ExcFileNotFound) # {}
    /\ JobDone(2)

(* C10: no error raised inside send_video_to_telegram reaches main: a       *)
(* missing file is followed by the file-not-found error message and no      *)
(* upload call is made for the job, a TelegramError by the Telegram API     *)
(* error message, any other error by the unexpected-error message; each     *)
(* time the function then returns normally, and the three messages differ.  *)
C10_SendNeverPropagates ==
    /\ pc # "crashed"
    /\ MsgFileNotFound # MsgTelegramError
    /\ MsgFileNotFound # MsgSendUnexpected
    /\ MsgTelegramError # MsgSendUnexpected
    /\ \A k \in DOMAIN trace :
        (trace[k].kind = "raise" /\ trace[k].what \in {"getsize", "open", "bot.send_video"}) =>
            LET j == trace[k].job
                exc == trace[k].arg
                msg == IF exc = "FileNotFoundError"
                       THEN "Error: Video file not found at path"
                       ELSE IF exc = "TelegramError"
                       THEN "Telegram API error when sending video"
                       ELSE "An unexpected error occurred when sending"
            IN /\ k + 2 <= Len(trace)
               /\ trace[k + 1] = Log(j, "error", msg, 0)
               /\ trace[k + 2] = Ret(j, "send_video_to_telegram", NoneVal, 0)
               /\ exc = "FileNotFoundError" => Calls(j, "bot.send_video") = {}
               /\ Cardinality(Returned(j, "send_video_to_telegram")) = 1

C10_Witness ==
    /\ pc = "done"
    /\ RaisedWith(1, "open", ExcFileNotFound) # {}
    /\ Calls(1, "bot.send_video") = {}
    /\ RaisedWith(2, "bot.send_video", ExcOther) # {}
    /\ Cardinality(Returned(1, "send_video_to_telegram")) = 1
    /\ Cardinality(Returned(2, "send_video_to_telegram")) = 1

====
